---- MODULE Spec2Model ----
(***************************************************************************)
(* VectorLite storage engine (pkg/storage): the single-file embedding      *)
(* store.  The file is a sequence of bytes; the engine state is the DB     *)
(* struct (header, index, dataEndOffset, mmap, LRU cache) and the          *)
(* sync.RWMutex; every thread executes one call at a time, cut at the      *)
(* lock operations.                                                        *)
(***************************************************************************)
EXTENDS Integers, Sequences, FiniteSets, TLC

\* ---------------------------------------------------------------- bounds
MaxKey == 3
MaxDim == 2
MaxCacheSize == 1
MaxClosedCalls == 1
MaxCap == 2
MaxLegacy == 2

\* ------------------------------------------------------ program constants
HeaderSize == 256
RecordMetaSize == 16
IndexEntrySize == 16
CurrentVersion == 2
DefaultCacheSize == 100
MagicBytes == <<69, 68, 66, 0>>

\* ------------------------------------------------------------ input sets
Keys == 1..MaxKey
Dims == 1..MaxDim
CacheSizes == 0..MaxCacheSize
Threads == {1, 2}
MainThreads == {1}

\* float32 values as IEEE-754 fields <<sign, exponent, mantissa>>
F0 == <<0, 0, 0>>
F1 == <<0, 127, 0>>
\* the vectors of length d the callers use: (1, 0, ..., 0) and (0, 1, ..., 1)
VectorsOfDim(d) == {[i \in 1..d |-> IF i = 1 THEN F1 ELSE F0],
                    [i \in 1..d |-> IF i = 1 THEN F0 ELSE F1]}
\* the vectors a caller passes to an engine of dimension d: also one that is too
\* short and one that is too long
Ones(n) == [i \in 1..n |-> F1]
InsertVectors(d) == VectorsOfDim(d) \cup {Ones(d - 1), Ones(d + 1)}

\* ------------------------------------------------ encoding/binary, math
Zeros(n) == [i \in 1..n |-> 0]

\* binary.LittleEndian.PutUint32
PutUint32(x) ==
  <<x % 256, (x \div 256) % 256, (x \div 65536) % 256, (x \div 16777216) % 256>>

\* binary.LittleEndian.PutUint64 (the high word is x / 2^32)
PutUint64(x) == PutUint32(x) \o PutUint32((x \div 65536) \div 65536)

\* binary.LittleEndian.Uint32 of the four bytes b[off:off+4] (off is 0-based)
Uint32(b, off) ==
  b[off + 1] + 256 * b[off + 2] + 65536 * b[off + 3] + 16777216 * b[off + 4]

\* binary.LittleEndian.Uint64 of the eight bytes b[off:off+8]
Uint64(b, off) == Uint32(b, off) + (Uint32(b, off + 4) * 65536) * 65536

\* math.Float32bits: sign | exponent << 23 | mantissa
Float32bits(f) == ((f[1] * 128) * 16777216) + f[2] * 8388608 + f[3]

\* a decoder that loses the exponent
Float32frombitsNoExp(w) == <<(w \div 16777216) \div 128, 0, w % 8388608>>

\* math.Float32frombits
Float32frombits(w) ==
  <<(w \div 16777216) \div 128, (w \div 8388608) % 256, w % 8388608>>

\* ------------------------------------------------------------- hashing
\* HashText is FNV-1a/64 of the key bytes: a total many-to-one function of
\* the key.  Keys 1 and 2 collide.
\* a hash without collisions
HashTextInjective(k) == k

HashText(k) == (k + 1) \div 2

\* ------------------------------------------------------------ os.File
\* File.WriteAt: positional write, extending the file when needed
WriteAt(f, buf, off) ==
  IF off >= Len(f) THEN f \o Zeros(off - Len(f)) \o buf
  ELSE SubSeq(f, 1, off) \o buf \o SubSeq(f, off + Len(buf) + 1, Len(f))

\* File.Truncate
Truncate(f, n) == IF n <= Len(f) THEN SubSeq(f, 1, n) ELSE f \o Zeros(n - Len(f))

\* ------------------------------------------------------- types.go codecs
NewHeader(d) ==
  [Magic |-> MagicBytes, Version |-> CurrentVersion, Dimension |-> d,
   RecordCount |-> 0, IndexOffset |-> 0, DataOffset |-> HeaderSize]

Encode(h) ==
  h.Magic \o PutUint32(h.Version) \o PutUint32(h.Dimension)
    \o PutUint64(h.RecordCount) \o PutUint64(h.IndexOffset)
    \o PutUint64(h.DataOffset) \o Zeros(HeaderSize - 36)

DecodeHeader(buf) ==
  [Magic |-> SubSeq(buf, 1, 4), Version |-> Uint32(buf, 4),
   Dimension |-> Uint32(buf, 8), RecordCount |-> Uint64(buf, 12),
   IndexOffset |-> Uint64(buf, 20), DataOffset |-> Uint64(buf, 28)]

EncodeIndexEntry(e) == PutUint64(e.Hash) \o PutUint64(e.Offset)

\* a decoder that reads the two fields in the other order
DecodeIndexEntrySwapped(b, off) ==
  [Hash |-> Uint64(b, off + 8), Offset |-> Uint64(b, off)]

DecodeIndexEntry(b, off) == [Hash |-> Uint64(b, off), Offset |-> Uint64(b, off + 8)]

\* the record buffer Insert builds: hash, dimension, reserved, payload
RECURSIVE PutVector(_, _)
PutVector(vector, i) ==
  IF i > Len(vector) THEN <<>>
  ELSE PutUint32(Float32bits(vector[i])) \o PutVector(vector, i + 1)

EncodeRecord(hash, vector) ==
  PutUint64(hash) \o PutUint32(Len(vector)) \o Zeros(4) \o PutVector(vector, 1)

\* ------------------------------------------------------------- state
VARIABLES
  exists,         \* the path names a file
  file,           \* its bytes
  fds,            \* open descriptors on it
  phase,          \* "None", "Open", "Closed" (Close returned nil), "Crashed"
  openErr,        \* what the last OpenWithOptions returned
  dimension,      \* db.dimension
  header,         \* db.header
  index,          \* db.index: hash -> offset
  dataEndOffset,  \* db.dataEndOffset
  mmap,           \* db.mmap: [isNil, len, live]
  capacity,       \* db.cache.capacity
  lru,            \* db.cache.lru (front first) of [hash, vector]
  pc, call, loc,  \* per thread: position, call in progress, locals
  ret,            \* the call that returned in the last step, with its result
  closedCalls,    \* calls made on the engine after its Close
  stored,         \* history: hash -> vector of the first insert that succeeded
  recency         \* history: hashes by their last cache get hit or put, latest first

fsVars == <<exists, file, fds>>
dbVars == <<dimension, header, index, dataEndOffset, mmap>>
cacheVars == <<capacity, lru, recency>>
vars == <<exists, file, fds, phase, openErr, dimension, header, index,
          dataEndOffset, mmap, capacity, lru, pc, call, loc, ret,
          closedCalls, stored, recency>>

\* ----------------------------------------------------------- small helpers
EmptyMap == [x \in {} |-> 0]
MapPut(m, k, v) == [x \in DOMAIN m \cup {k} |-> IF x = k THEN v ELSE m[x]]
Range(s) == {s[i] : i \in DOMAIN s}

\* Go's integer division truncates toward zero
GoDiv(a, b) == IF a < 0 THEN 0 - ((0 - a) \div b) ELSE a \div b

\* all orders in which a range over a Go map may visit the keys in S
Perms(S) == {p \in [1..Cardinality(S) -> S] : Range(p) = S}

NilMmap == [isNil |-> TRUE, len |-> 0, live |-> FALSE]
Mmap(n) == [isNil |-> FALSE, len |-> n, live |-> TRUE]
\* syscall.Munmap leaves the slice header in place: same length, pages gone
Munmap(mm) == [mm EXCEPT !.live = FALSE]

\* a similarity score num / sqrt(den): the cosine of vectors over 0.0 and 1.0
Score(num, den) == <<num, den>>
MinusOne == Score(0 - 1, 1)
Zero == Score(0, 1)
One == Score(1, 1)

NoCall == [op |-> "none", key |-> 0, vec |-> <<>>, threshold |-> Zero]
NoLoc == [hash |-> 0, offset |-> 0, vector |-> <<>>, stale |-> FALSE,
          offsets |-> <<>>, bestVector |-> <<>>, bestScore |-> MinusOne,
          expect |-> <<>>, prev |-> <<>>, began |-> FALSE, open |-> FALSE,
          snapshot |-> {}, held |-> FALSE]
\* the last return: who, which call, and what it gave
NoRet == [t |-> 0, op |-> "none", key |-> 0, vec |-> <<>>, threshold |-> Zero,
          kind |-> "none", out |-> <<>>, score |-> Zero, stats |-> <<>>,
          stale |-> FALSE, expect |-> <<>>, prev |-> <<>>, began |-> FALSE,
          open |-> FALSE, evicted |-> 0, cacheSize |-> 0, failure |-> "none"]
Result(k, v) == [kind |-> k, vec |-> v, stale |-> FALSE]

\* ------------------------------------------------------------ LRUCache
Present(l, h) == \E i \in DOMAIN l : l[i].hash = h
Pos(l, h) == CHOOSE i \in DOMAIN l : l[i].hash = h
Remove(l, i) == SubSeq(l, 1, i - 1) \o SubSeq(l, i + 1, Len(l))

\* list.MoveToFront
MoveToFront(l, h) == <<l[Pos(l, h)]>> \o Remove(l, Pos(l, h))

\* an evict that drops the front element
evictFront(l) == IF Len(l) > 0 THEN Tail(l) ELSE l

\* an evict that drops nothing
evictNone(l) == l

\* LRUCache.evict: drop the back element
evict(l) == IF Len(l) > 0 THEN SubSeq(l, 1, Len(l) - 1) ELSE l

\* a probe that never promotes
CacheGetNoPromote(l, h) == l

\* a probe that drops the back entry on a miss
CacheGetDropping(l, h) == IF Present(l, h) THEN MoveToFront(l, h) ELSE evict(l)

\* LRUCache.Get: the list after the probe (a hit moves the entry to front)
CacheGet(l, h) == IF Present(l, h) THEN MoveToFront(l, h) ELSE l

\* a Put that adds a new entry at the least-recently-used end
CachePutAtBack(l, cap, h, v) ==
  IF Present(l, h)
    THEN <<[hash |-> h, vector |-> v]>> \o Remove(l, Pos(l, h))
    ELSE LET pushed == l \o <<[hash |-> h, vector |-> v]>>
         IN  IF Len(pushed) > cap THEN evict(pushed) ELSE pushed

\* a Put that promotes a present entry and keeps its old vector
CachePutKeepsVector(l, cap, h, v) ==
  IF Present(l, h)
    THEN MoveToFront(l, h)
    ELSE LET pushed == <<[hash |-> h, vector |-> v]>> \o l
         IN  IF Len(pushed) > cap THEN evict(pushed) ELSE pushed

\* LRUCache.Put
CachePut(l, cap, h, v) ==
  IF Present(l, h)
    THEN <<[hash |-> h, vector |-> v]>> \o Remove(l, Pos(l, h))
    ELSE LET pushed == <<[hash |-> h, vector |-> v]>> \o l
         IN  IF Len(pushed) > cap THEN evict(pushed) ELSE pushed

\* the hash a Put of h drops from the list l, 0 when it drops none
Evicted(l, cap, h) ==
  IF ~Present(l, h) /\ Len(l) + 1 > cap THEN (<<[hash |-> h]>> \o l)[Len(l) + 1].hash
  ELSE 0

\* history of touches: h becomes the latest
Touch(r, h) == <<h>> \o SelectSeq(r, LAMBDA x : x # h)

\* ------------------------------------------------------------ index build
RECURSIVE SectionLoop(_, _, _, _, _)
SectionLoop(f, idx, indexOffset, i, numEntries) ==
  LET offset == indexOffset + i * IndexEntrySize
  IN  IF i >= numEntries \/ offset + IndexEntrySize > Len(f) THEN idx
      ELSE LET entry == DecodeIndexEntry(f, offset)
           IN  SectionLoop(f, MapPut(idx, entry.Hash, entry.Offset),
                           indexOffset, i + 1, numEntries)

\* a section reader that stores where the section starts instead of the
\* offset held in the entry
buildIndexFromSectionEntryPos(f, h) ==
  LET numEntries == GoDiv(Len(f) - h.IndexOffset, IndexEntrySize)
  IN  [x \in {DecodeIndexEntry(f, h.IndexOffset + i * IndexEntrySize).Hash :
                i \in 0..(numEntries - 1)} |-> h.IndexOffset]

buildIndexFromSection(f, h) ==
  LET indexOffset == h.IndexOffset
      fileSize == Len(f)
      numEntries == GoDiv(fileSize - indexOffset, IndexEntrySize)
  IN  IF numEntries = 0 THEN EmptyMap
      ELSE SectionLoop(f, EmptyMap, indexOffset, 0, numEntries)

RECURSIVE LegacyLoop(_, _, _)
LegacyLoop(f, idx, offset) ==
  IF offset >= Len(f) \/ offset + RecordMetaSize > Len(f) THEN idx
  ELSE LET hash == Uint64(f, offset)
           dim == Uint32(f, offset + 8)
       IN  LegacyLoop(f, MapPut(idx, hash, offset),
                      offset + RecordMetaSize + dim * 4)

\* a scan that stops after the first record
buildIndexLegacyFirst(f) ==
  IF HeaderSize + RecordMetaSize > Len(f) THEN EmptyMap
  ELSE MapPut(EmptyMap, Uint64(f, HeaderSize), HeaderSize)

buildIndexLegacy(f) == LegacyLoop(f, EmptyMap, HeaderSize)

buildIndex(f, h) ==
  IF h.Version >= 2 /\ h.IndexOffset > 0
    THEN buildIndexFromSection(f, h)
    ELSE buildIndexLegacy(f)

\* --------------------------------------------------------- create / open
\* a failing open that keeps its descriptor
OpenFailLeak(e) ==
  [err |-> e, header |-> NewHeader(0), index |-> EmptyMap, mmap |-> NilMmap,
   dataEndOffset |-> 0, closed |-> FALSE]

OpenFail(e) ==
  [err |-> e, header |-> NewHeader(0), index |-> EmptyMap, mmap |-> NilMmap,
   dataEndOffset |-> 0, closed |-> TRUE]

\* a create that leaves the data end at its zero value
createAtZero(d) ==
  [err |-> "ok", header |-> NewHeader(d), index |-> EmptyMap, mmap |-> NilMmap,
   dataEndOffset |-> 0, closed |-> FALSE]

\* DB.create: the engine over the fresh file
create(d) ==
  [err |-> "ok", header |-> NewHeader(d), index |-> EmptyMap, mmap |-> NilMmap,
   dataEndOffset |-> HeaderSize, closed |-> FALSE]

\* a data end taken from the header's data offset
DataEndAtOpenDataOffset(h, size) == h.DataOffset

\* an open that takes the end of the file as the data end
DataEndAtOpenFileSize(h, size) == size

\* the end of the data section of a mapped file of the given size: where its
\* index section starts, or the end of the file when it has none
DataEndAtOpen(h, size) ==
  IF h.Version >= 2 /\ h.IndexOffset > 0 THEN h.IndexOffset ELSE size

\* DB.open on the existing bytes f
open(f, d) ==
  IF Len(f) < HeaderSize THEN OpenFail("EOF")
  ELSE LET h == DecodeHeader(SubSeq(f, 1, HeaderSize))
       IN  IF h.Magic # MagicBytes THEN OpenFail("InvalidFormat")
           ELSE IF h.Dimension # d THEN OpenFail("DimensionMismatch")
           ELSE IF Len(f) > HeaderSize
             THEN [err |-> "ok", header |-> h, index |-> buildIndex(f, h),
                   mmap |-> Mmap(Len(f)),
                   dataEndOffset |-> DataEndAtOpen(h, Len(f)),
                   closed |-> FALSE]
             ELSE [err |-> "ok", header |-> h, index |-> EmptyMap,
                   mmap |-> NilMmap, dataEndOffset |-> HeaderSize,
                   closed |-> FALSE]

\* a reader that decodes the first record whatever the offset
readVectorFirstRecord(f, mm, offset) ==
  IF mm.isNil THEN Result("NotFound", <<>>)
  ELSE IF HeaderSize + 12 > mm.len THEN Result("panic", <<>>)
  ELSE LET dim == Uint32(f, HeaderSize + 8)
           vectorOffset == HeaderSize + RecordMetaSize
       IN  IF dim > 0 /\ vectorOffset + dim * 4 > mm.len THEN Result("panic", <<>>)
           ELSE Result("ok", [i \in 1..dim |->
                                Float32frombits(Uint32(f, vectorOffset + (i - 1) * 4))])

\* ------------------------------------------------------------ readVector
\* through a live mapping of mm.len bytes of f; "panic" is a slice bounds
\* failure at run time
readVector(f, mm, offset) ==
  IF mm.isNil THEN Result("NotFound", <<>>)
  ELSE IF offset + 8 < 0 \/ offset + 12 > mm.len THEN Result("panic", <<>>)
  ELSE LET dim == Uint32(f, offset + 8)
           vectorOffset == offset + RecordMetaSize
       IN  IF dim > 0 /\ vectorOffset + dim * 4 > mm.len THEN Result("panic", <<>>)
           ELSE Result("ok", [i \in 1..dim |->
                                Float32frombits(Uint32(f, vectorOffset + (i - 1) * 4))])

\* a remap that unmaps and does not map again
remapUnmapOnly(n) == Munmap(Mmap(n))

\* a remap that maps nothing
remapNone(n) == NilMmap

\* DB.remap after the file has length n
remap(n) == IF n <= HeaderSize THEN NilMmap ELSE Mmap(n)

\* --------------------------------------------------------- index section
\* DB.writeIndexSection: the entries in the order p of the map range, written
\* from dataEndOffset on, then the truncate
RECURSIVE WriteEntries(_, _, _, _, _)
WriteEntries(f, idx, p, i, currentOffset) ==
  IF i > Len(p) THEN Truncate(f, currentOffset)
  ELSE WriteEntries(WriteAt(f, EncodeIndexEntry([Hash |-> p[i], Offset |-> idx[p[i]]]),
                            currentOffset),
                    idx, p, i + 1, currentOffset + IndexEntrySize)

\* a writer that puts the entries right after the header
writeIndexSectionAtHeader(f, idx, dataEnd, p) == WriteEntries(f, idx, p, 1, HeaderSize)

\* a writer that puts the entries after the old end of the file
writeIndexSectionAppend(f, idx, dataEnd, p) == WriteEntries(f, idx, p, 1, Len(f))

writeIndexSection(f, idx, dataEnd, p) == WriteEntries(f, idx, p, 1, dataEnd)

\* --------------------------------------------------------------- Init
\* a file of another format at the path: a ZIP local header
ForeignFile == <<80, 75, 3, 4>> \o Zeros(HeaderSize - 4)

Init ==
  /\ exists \in BOOLEAN
  /\ file = IF exists THEN ForeignFile ELSE <<>>
  /\ fds = 0
  /\ phase = "None"
  /\ openErr = "none"
  /\ dimension = 0
  /\ header = NewHeader(0)
  /\ index = EmptyMap
  /\ dataEndOffset = 0
  /\ mmap = NilMmap
  /\ capacity = 0
  /\ lru = <<>>
  /\ pc = [t \in Threads |-> "idle"]
  /\ call = [t \in Threads |-> NoCall]
  /\ loc = [t \in Threads |-> NoLoc]
  /\ ret = NoRet
  /\ closedCalls = 0
  /\ stored = EmptyMap
  /\ recency = <<>>

\* ------------------------------------------------------- OpenWithOptions
\* a new engine value; the threads start over on it
OpenWithOptions(d, cs) ==
  /\ phase \in {"None", "Closed", "Crashed"}
  /\ \A t \in Threads : pc[t] = "idle"
  /\ LET r == IF exists THEN open(file, d) ELSE create(d)
     IN  /\ exists' = TRUE
         /\ file' = IF exists THEN file ELSE Encode(NewHeader(d))
         /\ fds' = IF r.closed THEN fds ELSE fds + 1
         /\ openErr' = r.err
         /\ phase' = IF r.err = "ok" THEN "Open" ELSE "None"
         /\ dimension' = IF r.err = "ok" THEN d ELSE 0
         /\ header' = r.header
         /\ index' = r.index
         /\ dataEndOffset' = r.dataEndOffset
         /\ mmap' = r.mmap
         /\ capacity' = IF r.err # "ok" THEN 0
                        ELSE IF cs = 0 THEN DefaultCacheSize ELSE cs
  /\ lru' = <<>>
  /\ recency' = <<>>
  /\ pc' = [t \in Threads |-> "idle"]
  /\ call' = [t \in Threads |-> NoCall]
  /\ loc' = [t \in Threads |-> NoLoc]
  /\ ret' = [NoRet EXCEPT !.op = "open", !.key = d, !.cacheSize = cs,
                          !.kind = IF exists THEN open(file, d).err ELSE "ok"]
  /\ closedCalls' = 0
  /\ UNCHANGED stored

\* --------------------------------------------------------- thread steps
\* Each section between db.mu.Lock/RLock and the matching unlock is one step:
\* nothing in it blocks, and it touches only what the lock guards, the file
\* and the cache (which has its own lock and calls nothing).

\* a thread starts a call on the engine; on a closed one MaxClosedCalls times
CanCall(t) ==
  /\ pc[t] = "idle"
  /\ \/ phase = "Open" /\ UNCHANGED closedCalls
     \/ phase = "Closed" /\ closedCalls < MaxClosedCalls
                         /\ closedCalls' = closedCalls + 1

\* the thread goes on inside its call, outside every lock
Goto(t, label, c, l) ==
  /\ pc' = [pc EXCEPT ![t] = label]
  /\ call' = [call EXCEPT ![t] = c]
  /\ loc' = [loc EXCEPT ![t] = [l EXCEPT !.held = FALSE]]
  /\ ret' = NoRet

\* the call c of thread t returns
Event(t, c, l, kind) ==
  [NoRet EXCEPT !.t = t, !.op = c.op, !.key = c.key, !.vec = c.vec,
                !.threshold = c.threshold, !.kind = kind, !.stale = l.stale,
                !.expect = l.expect, !.prev = l.prev, !.began = l.began,
                !.open = l.open]

Return(t, e) ==
  /\ pc' = [pc EXCEPT ![t] = "idle"]
  /\ call' = [call EXCEPT ![t] = NoCall]
  /\ loc' = [loc EXCEPT ![t] = NoLoc]
  /\ ret' = e

\* a run-time panic or fault ends the process: its threads, its engine value
\* and its descriptors are gone, the file stays as it is
Panic(t) ==
  /\ phase' = "Crashed"
  /\ pc' = [u \in Threads |-> "idle"]
  /\ call' = [u \in Threads |-> NoCall]
  /\ loc' = [u \in Threads |-> NoLoc]
  /\ ret' = Event(t, call[t], loc[t], "panic")
  /\ fds' = 0
  /\ dimension' = 0
  /\ header' = NewHeader(0)
  /\ index' = EmptyMap
  /\ dataEndOffset' = 0
  /\ mmap' = NilMmap
  /\ capacity' = 0
  /\ lru' = <<>>
  /\ recency' = <<>>
  /\ UNCHANGED <<exists, file, openErr, closedCalls, stored>>

\* ---- Insert
\* no length check at all
DimensionAny(vector, d) == TRUE

\* len(vector) == int(db.dimension)
DimensionOk(vector, d) == Len(vector) = d

CallInsert(t, k, v) ==
  /\ CanCall(t)
  /\ LET c == [NoCall EXCEPT !.op = "insert", !.key = k, !.vec = v]
         l == [NoLoc EXCEPT !.began = (phase = "Open"), !.open = (phase = "Open")]
     IN  IF ~DimensionOk(v, dimension)
           THEN Return(t, Event(t, c, l, "DimensionMismatch"))
           ELSE Goto(t, "insert", c, l)
  /\ UNCHANGED <<fsVars, phase, openErr, dbVars, cacheVars, stored>>

\* an Insert that never takes the early return
InsertExistsNever(idx, hash) == FALSE

\* db.index[hash] exists: Insert returns nil at once
InsertExists(idx, hash) == hash \in DOMAIN idx

\* an Insert that writes every record right behind the header
InsertOffsetAtHeader(dataEnd, size) == HeaderSize

\* an Insert that appends at the end of the file
InsertOffsetAtEnd(dataEnd, size) == size

\* offset := db.dataEndOffset, whatever the size of the file
InsertOffset(dataEnd, size) == dataEnd

\* an Insert that does not count the record
RecordCountUncounted(n) == n

\* db.header.RecordCount++
RecordCountAfterInsert(n) == n + 1

\* db.mu.Lock() ... Unlock() of Insert
InsertBody(t) ==
  /\ pc[t] = "insert"
  /\ LET hash == HashText(call[t].key)
         vector == call[t].vec
         offset == InsertOffset(dataEndOffset, Len(file))
         written == WriteAt(file, EncodeRecord(hash, vector), offset)
         ok == InsertExists(index, hash) \/ phase = "Open"
     IN  /\ IF InsertExists(index, hash)
              THEN UNCHANGED <<file, dbVars>>
              ELSE IF phase # "Open"   \* WriteAt on the closed *os.File
                THEN UNCHANGED <<file, dbVars>>
                ELSE /\ file' = written
                     /\ index' = MapPut(index, hash, offset)
                     /\ header' = [header EXCEPT !.RecordCount = RecordCountAfterInsert(@)]
                     /\ dataEndOffset' = offset + RecordMetaSize + Len(vector) * 4
                     /\ mmap' = remap(Len(written))
                     /\ UNCHANGED dimension
         /\ Return(t, Event(t, call[t], loc[t], IF ok THEN "ok" ELSE "ErrClosed"))
         /\ stored' = IF ok /\ hash \notin DOMAIN stored
                        THEN MapPut(stored, hash, vector) ELSE stored
  /\ UNCHANGED <<exists, fds, phase, openErr, cacheVars, closedCalls>>

\* ---- Get
\* the insert of k that returned in the step before this call: <<kind, vector>>
PrevInsert(k) ==
  IF ret.op = "insert" /\ ret.key = k THEN <<ret.kind, ret.vec>> ELSE <<>>

\* hash := HashText(text); db.cache.Get(hash)
CallGet(t, k) ==
  /\ CanCall(t)
  /\ LET hash == HashText(k)
         c == [NoCall EXCEPT !.op = "get", !.key = k]
         l == [NoLoc EXCEPT !.hash = hash, !.began = (phase = "Open"), !.open = (phase = "Open"),
                            !.expect = IF hash \in DOMAIN stored
                                         THEN stored[hash] ELSE <<>>,
                            !.prev = PrevInsert(k)]
     IN  /\ lru' = CacheGet(lru, hash)
         /\ IF Present(lru, hash)
              THEN /\ Return(t, [Event(t, c, l, "ok") EXCEPT
                                   !.out = lru[Pos(lru, hash)].vector])
                   /\ recency' = Touch(recency, hash)
              ELSE /\ Goto(t, "get_lookup", c, l)
                   /\ UNCHANGED recency
  /\ UNCHANGED <<fsVars, phase, openErr, dbVars, capacity, stored>>

\* db.mu.RLock(); offset, exists := db.index[hash]; db.mu.RUnlock()
GetLookup(t) ==
  /\ pc[t] = "get_lookup"
  /\ IF loc[t].hash \in DOMAIN index
       THEN Goto(t, "get_read", call[t],
                 [loc[t] EXCEPT !.offset = index[loc[t].hash]])
       ELSE Return(t, Event(t, call[t], loc[t], "NotFound"))
  /\ UNCHANGED <<fsVars, phase, openErr, dbVars, cacheVars, closedCalls, stored>>

\* some of what unmapped addresses may hold
Garbage == VectorsOfDim(1)

\* what a read through db.mmap can give: the record through a live mapping;
\* through unmapped pages a fault, or whatever now lies at those addresses
ReadOutcomes(f, mm, offset) ==
  IF mm.isNil \/ mm.live THEN {readVector(f, mm, offset)}
  ELSE {Result("panic", <<>>)}
         \cup {[Result("ok", v) EXCEPT !.stale = TRUE] : v \in Garbage}

\* db.mu.RLock(); vector, err := db.readVector(offset); db.mu.RUnlock()
GetRead(t) ==
  /\ pc[t] = "get_read"
  /\ \E r \in ReadOutcomes(file, mmap, loc[t].offset) :
       IF r.kind = "panic"
         THEN Panic(t)
         ELSE /\ IF r.kind = "ok"
                   THEN Goto(t, "get_put", call[t],
                             [loc[t] EXCEPT !.vector = r.vec, !.stale = r.stale])
                   ELSE Return(t, Event(t, call[t], loc[t], r.kind))
              /\ UNCHANGED <<fsVars, phase, openErr, dbVars, cacheVars,
                             closedCalls, stored>>

\* db.cache.Put(hash, vector); return vector, nil
GetPut(t) ==
  /\ pc[t] = "get_put"
  /\ lru' = CachePut(lru, capacity, loc[t].hash, loc[t].vector)
  /\ recency' = Touch(recency, loc[t].hash)
  /\ Return(t, [Event(t, call[t], loc[t], "ok") EXCEPT
                  !.out = loc[t].vector,
                  !.evicted = Evicted(lru, capacity, loc[t].hash)])
  /\ UNCHANGED <<fsVars, phase, openErr, dbVars, capacity, closedCalls, stored>>

\* ---- Stats
CallStats(t) ==
  /\ CanCall(t)
  /\ Goto(t, "stats", [NoCall EXCEPT !.op = "stats"],
          [NoLoc EXCEPT !.began = (phase = "Open"), !.open = (phase = "Open")])
  /\ UNCHANGED <<fsVars, phase, openErr, dbVars, cacheVars, stored>>

\* a Stats that reports the number of cached vectors as the capacity
StatsCacheLen(idx, d, size, l, cap) ==
  [records |-> Cardinality(DOMAIN idx), dimension |-> d, file_size |-> size,
   index_size |-> Cardinality(DOMAIN idx), cache_size |-> Len(l),
   cache_capacity |-> Len(l)]

\* the map Stats returns
Stats(idx, d, size, l, cap) ==
  [records |-> Cardinality(DOMAIN idx), dimension |-> d, file_size |-> size,
   index_size |-> Cardinality(DOMAIN idx), cache_size |-> Len(l),
   cache_capacity |-> cap]

\* on a closed *os.File Stat returns a nil FileInfo, and stat.Size() panics
StatsBody(t) ==
  /\ pc[t] = "stats"
  /\ IF phase # "Open"
       THEN Panic(t)
       ELSE /\ Return(t, [Event(t, call[t], loc[t], "ok") EXCEPT
                            !.stats = Stats(index, dimension, Len(file), lru, capacity)])
            /\ UNCHANGED <<fsVars, phase, openErr, dbVars, cacheVars,
                           closedCalls, stored>>

\* ---- Close
CallClose(t) ==
  /\ CanCall(t)
  /\ Goto(t, "close", [NoCall EXCEPT !.op = "close"],
          [NoLoc EXCEPT !.began = (phase = "Open"), !.open = (phase = "Open")])
  /\ UNCHANGED <<fsVars, phase, openErr, dbVars, cacheVars, stored>>

\* a Close that writes the index section whatever the version
WritesIndexAnyVersion(idx, h) == Cardinality(DOMAIN idx) > 0

\* Close writes the index section under this condition
WritesIndex(idx, h) == Cardinality(DOMAIN idx) > 0 /\ h.Version >= 2

\* the mapping after Close
CloseMmap(mm) == IF mm.isNil THEN mm ELSE Munmap(mm)

\* db.mu.Lock() ... Unlock() of Close
CloseBody(t) ==
  /\ pc[t] = "close"
  /\ IF phase # "Open"
       THEN \* every WriteAt on the closed *os.File fails
            /\ Return(t, Event(t, call[t], loc[t], "ErrClosed"))
            /\ UNCHANGED <<fsVars, phase, dbVars>>
       ELSE \E p \in Perms(DOMAIN index) :
              LET sect == WritesIndex(index, header)
                  f1 == IF sect THEN writeIndexSection(file, index, dataEndOffset, p)
                        ELSE file
                  h1 == IF sect THEN [header EXCEPT !.IndexOffset = dataEndOffset]
                        ELSE header
              IN  /\ file' = WriteAt(f1, Encode(h1), 0)
                  /\ header' = h1
                  /\ mmap' = CloseMmap(mmap)
                  /\ fds' = fds - 1
                  /\ phase' = "Closed"
                  /\ pc' = [pc EXCEPT ![t] = "idle"]
                  /\ call' = [call EXCEPT ![t] = NoCall]
                  /\ loc' = [u \in Threads |->
                               IF u = t \/ pc[u] = "idle" THEN NoLoc
                               ELSE [loc[u] EXCEPT !.open = FALSE]]
                  /\ ret' = Event(t, call[t], loc[t], "ok")
                  /\ UNCHANGED <<exists, dimension, index, dataEndOffset>>
  /\ UNCHANGED <<openErr, cacheVars, closedCalls, stored>>

\* ---- FindSimilar
\* the value of a float32 whose fraction is 0: 0.0 and the powers of two from
\* 1.0 up are exact, a magnitude below 1.0 counts as 0
Val(f) == IF f[2] < 127 THEN 0
          ELSE (IF f[1] = 1 THEN 0 - 1 ELSE 1) * 2 ^ (f[2] - 127)

RECURSIVE Dot(_, _, _)
Dot(a, b, i) == IF i > Len(a) THEN 0 ELSE Val(a[i]) * Val(b[i]) + Dot(a, b, i + 1)

\* cosineSimilarity: exact on the vectors used here, whose norms are 0 or 1
cosineSimilarity(a, b) ==
  IF Len(a) # Len(b) THEN MinusOne
  ELSE LET dotProduct == Dot(a, b, 1)
           normA == Dot(a, a, 1)
           normB == Dot(b, b, 1)
       IN  IF normA = 0 \/ normB = 0 THEN Zero
           ELSE Score(dotProduct, normA * normB)

\* order of scores: x.num / sqrt(x.den) against y.num / sqrt(y.den)
SignedSq(n) == IF n < 0 THEN 0 - n * n ELSE n * n
Gt(x, y) == SignedSq(x[1]) * y[2] > SignedSq(y[1]) * x[2]
Ge(x, y) == SignedSq(x[1]) * y[2] >= SignedSq(y[1]) * x[2]

Thresholds == {MinusOne, One}
Queries(d) == VectorsOfDim(d) \cup {Ones(d + 1)}

\* the return after the loop
FindResult(t, c, l) ==
  IF Ge(l.bestScore, c.threshold)
    THEN [Event(t, c, l, "ok") EXCEPT !.out = l.bestVector, !.score = l.bestScore]
    ELSE Event(t, c, l, "NotFound")

CallFind(t, q, th) ==
  /\ CanCall(t)
  /\ LET c == [NoCall EXCEPT !.op = "find", !.vec = q, !.threshold = th]
         l == [NoLoc EXCEPT !.began = (phase = "Open"), !.open = (phase = "Open")]
     IN  IF ~DimensionOk(q, dimension)
           THEN Return(t, Event(t, c, l, "DimensionMismatch"))
           ELSE Goto(t, "find_snap", c, l)
  /\ UNCHANGED <<fsVars, phase, openErr, dbVars, cacheVars, stored>>

\* db.mu.RLock(); offsets := the values of db.index in map order; RUnlock()
\* (snapshot is history: the hashes whose offsets were taken)
FindSnap(t) ==
  /\ pc[t] = "find_snap"
  /\ \E p \in Perms(DOMAIN index) :
       LET l == [loc[t] EXCEPT !.offsets = [i \in 1..Len(p) |-> index[p[i]]],
                               !.snapshot = DOMAIN index]
       IN  IF Len(p) = 0
             THEN Return(t, FindResult(t, call[t], l))
             ELSE Goto(t, "find_read", call[t], l)
  /\ UNCHANGED <<fsVars, phase, openErr, dbVars, cacheVars, closedCalls, stored>>

\* one turn of the loop: RLock, readVector, RUnlock, then the comparison;
\* after the last turn the call returns
FindRead(t) ==
  /\ pc[t] = "find_read"
  /\ \E r \in ReadOutcomes(file, mmap, Head(loc[t].offsets)) :
       IF r.kind = "panic"
         THEN Panic(t)
         ELSE LET score == cosineSimilarity(call[t].vec, r.vec)
                  better == r.kind = "ok" /\ Gt(score, loc[t].bestScore)
                  l == [loc[t] EXCEPT
                          !.offsets = Tail(@),
                          !.stale = @ \/ r.stale,
                          !.bestScore = IF better THEN score ELSE @,
                          !.bestVector = IF better THEN r.vec ELSE @]
              IN  /\ IF l.offsets = <<>>
                       THEN Return(t, FindResult(t, call[t], l))
                       ELSE Goto(t, "find_read", call[t], l)
                  /\ UNCHANGED <<fsVars, phase, openErr, dbVars, cacheVars,
                                 closedCalls, stored>>

\* ------------------------------------------------------------ the program
Step(t) ==
  \/ \E k \in Keys, v \in InsertVectors(dimension) : CallInsert(t, k, v)
  \/ InsertBody(t)
  \/ \E k \in Keys : CallGet(t, k)
  \/ GetLookup(t)
  \/ GetRead(t)
  \/ GetPut(t)
  \/ \E q \in Queries(dimension), th \in Thresholds : CallFind(t, q, th)
  \/ FindSnap(t)
  \/ FindRead(t)
  \/ CallStats(t)
  \/ StatsBody(t)
  \/ CallClose(t)
  \/ CloseBody(t)

Open == \E d \in Dims, cs \in CacheSizes : OpenWithOptions(d, cs)

\* one client thread; every dimension and cache size
Next == Open \/ \E t \in MainThreads : Step(t)
Spec == Init /\ [][Next]_vars

\* one engine of dimension 1 with a one-entry cache, shared by two threads:
\* thread 1 inserts, reads and closes, thread 2 reads
Reader(t) ==
  \/ \E k \in Keys : CallGet(t, k)
  \/ GetLookup(t)
  \/ GetRead(t)
  \/ GetPut(t)
  \/ \E q \in VectorsOfDim(dimension), th \in Thresholds : CallFind(t, q, th)
  \/ FindSnap(t)
  \/ FindRead(t)

Writer(t) ==
  \/ \E k \in Keys, v \in VectorsOfDim(dimension) : CallInsert(t, k, v)
  \/ InsertBody(t)
  \/ CallClose(t)
  \/ CloseBody(t)

OpenConc == phase = "None" /\ OpenWithOptions(1, 1)
NextConc == OpenConc \/ Writer(1) \/ Reader(1) \/ Reader(2)
SpecConc == Init /\ [][NextConc]_vars

\* ------------------------------------------------------ the cache alone
\* LRUCache driven directly, as the cache tests do
Capacities == 1..MaxCap
CacheHashes == 1..MaxKey

NewLRUCache(c) ==
  /\ phase = "None"
  /\ capacity' = c
  /\ lru' = <<>>
  /\ recency' = <<>>
  /\ ret' = NoRet
  /\ UNCHANGED <<fsVars, phase, openErr, dbVars, pc, call, loc, closedCalls, stored>>

LRUGet(h) ==
  /\ phase = "None" /\ capacity > 0
  /\ lru' = CacheGet(lru, h)
  /\ recency' = IF Present(lru, h) THEN Touch(recency, h) ELSE recency
  /\ ret' = IF Present(lru, h)
              THEN [NoRet EXCEPT !.op = "cache_get", !.key = h, !.kind = "ok",
                                 !.out = lru[Pos(lru, h)].vector]
              ELSE [NoRet EXCEPT !.op = "cache_get", !.key = h, !.kind = "miss"]
  /\ UNCHANGED <<fsVars, phase, openErr, dbVars, capacity, pc, call, loc,
                 closedCalls, stored>>

LRUPut(h, v) ==
  /\ phase = "None" /\ capacity > 0
  /\ lru' = CachePut(lru, capacity, h, v)
  /\ recency' = Touch(recency, h)
  /\ ret' = [NoRet EXCEPT !.op = "cache_put", !.key = h, !.vec = v, !.kind = "ok",
                          !.evicted = Evicted(lru, capacity, h),
                          !.prev = IF Present(lru, h) THEN lru[Pos(lru, h)].vector
                                   ELSE <<>>]
  /\ UNCHANGED <<fsVars, phase, openErr, dbVars, capacity, pc, call, loc,
                 closedCalls, stored>>

NextLRU ==
  \/ \E c \in Capacities : NewLRUCache(c)
  \/ \E h \in CacheHashes : LRUGet(h)
  \/ \E h \in CacheHashes, v \in VectorsOfDim(1) : LRUPut(h, v)
SpecLRU == Init /\ [][NextLRU]_vars

\* ------------------------------------------- the caller's returned slice
\* Get returns entry.vector itself on a hit, and on a miss the very slice it
\* has just put in the cache: the caller's slice and the cache entry share one
\* backing array.  The caller of the Get that has just returned stores f in
\* element i of its slice.
CallerWrites(t, i, f) ==
  /\ phase = "Open"
  /\ ret.op = "get" /\ ret.kind = "ok" /\ ret.t = t
  /\ Present(lru, HashText(ret.key))
  /\ i \in DOMAIN ret.out
  /\ ret.out[i] # f
  /\ lru' = [lru EXCEPT ![Pos(lru, HashText(ret.key))].vector[i] = f]
  /\ ret' = [NoRet EXCEPT !.t = t, !.op = "write", !.key = ret.key,
                          !.vec = [ret.out EXCEPT ![i] = f], !.kind = "ok"]
  /\ UNCHANGED <<fsVars, phase, openErr, dbVars, capacity, recency, pc, call, loc,
                 closedCalls, stored>>

\* one thread whose callers also write into the vectors Get returned
NextAlias ==
  \/ Open
  \/ \E t \in MainThreads : Step(t)
  \/ \E t \in MainThreads, i \in 1..MaxDim, f \in {F0, F1} : CallerWrites(t, i, f)
SpecAlias == Init /\ [][NextAlias]_vars

\* ------------------------------------------------------- version-1 files
\* a file as a version-1 writer leaves it: header with version 1 and
\* index_offset 0, then the records, no index section
LegacyHeader(d, n) ==
  [Magic |-> MagicBytes, Version |-> 1, Dimension |-> d, RecordCount |-> n,
   IndexOffset |-> 0, DataOffset |-> HeaderSize]

RECURSIVE Records(_, _)
Records(recs, i) ==
  IF i > Len(recs) THEN <<>>
  ELSE EncodeRecord(recs[i][1], recs[i][2]) \o Records(recs, i + 1)

LegacyFile(d, recs) == Encode(LegacyHeader(d, Len(recs))) \o Records(recs, 1)

\* one or two complete records of dimension d with distinct hashes
LegacyRecords(d) ==
  {<<<<h, v>>>> : h \in 1..MaxLegacy, v \in VectorsOfDim(d)}
    \cup {r \in {<<<<h, v>>, <<g, w>>>> :
                   h \in 1..MaxLegacy, g \in 1..MaxLegacy,
                   v \in VectorsOfDim(d), w \in VectorsOfDim(d)} :
            r[1][1] # r[2][1]}

InitLegacy ==
  /\ exists = TRUE
  /\ \E d \in Dims : \E recs \in LegacyRecords(d) :
       /\ file = LegacyFile(d, recs)
       /\ stored = [h \in {recs[i][1] : i \in DOMAIN recs} |->
                      (CHOOSE r \in Range(recs) : r[1] = h)[2]]
  /\ fds = 0
  /\ phase = "None"
  /\ openErr = "none"
  /\ dimension = 0
  /\ header = NewHeader(0)
  /\ index = EmptyMap
  /\ dataEndOffset = 0
  /\ mmap = NilMmap
  /\ capacity = 0
  /\ lru = <<>>
  /\ pc = [t \in Threads |-> "idle"]
  /\ call = [t \in Threads |-> NoCall]
  /\ loc = [t \in Threads |-> NoLoc]
  /\ ret = NoRet
  /\ closedCalls = 0
  /\ recency = <<>>

\* one thread on a version-1 file: open, read, insert, close, open again
NextLegacy == Open \/ Reader(1) \/ Writer(1)
SpecLegacy == InitLegacy /\ [][NextLegacy]_vars

\* ------------------------------------------------- files from elsewhere
\* Files that open may find at the path and that no clean run of this engine
\* leaves there: written by another writer or process, or cut short.  Each
\* comes with the vectors a reader of the format expects to get from it.
FileHash == 1
OtherHash == 2

\* the index section for the entries es, a sequence of <<hash, offset>>
RECURSIVE Entries(_, _)
Entries(es, i) ==
  IF i > Len(es) THEN <<>>
  ELSE EncodeIndexEntry([Hash |-> es[i][1], Offset |-> es[i][2]]) \o Entries(es, i + 1)

\* a vector of dimension d other than v
OtherVector(v, d) == CHOOSE w \in VectorsOfDim(d) : w # v

\* a version-1 file in which two records with different vectors carry the
\* same hash
DupLegacyFiles(d) ==
  {[file |-> LegacyFile(d, <<<<FileHash, v>>, <<FileHash, OtherVector(v, d)>>>>),
    stored |-> MapPut(EmptyMap, FileHash, v)] :
     v \in VectorsOfDim(d)}

\* a version-2 file of two records whose index section names the same hash
\* twice, the records in either order
DupSectionFiles(d) ==
  LET size == RecordMetaSize + 4 * d
      h == [NewHeader(d) EXCEPT !.RecordCount = 2, !.IndexOffset = HeaderSize + 2 * size]
  IN  {[file |-> Encode(h)
                   \o Records(<<<<FileHash, v>>, <<FileHash, OtherVector(v, d)>>>>, 1)
                   \o Entries(<<<<FileHash, HeaderSize + a * size>>,
                                 <<FileHash, HeaderSize + (1 - a) * size>>>>, 1),
        stored |-> MapPut(EmptyMap, FileHash,
                          IF a = 0 THEN v ELSE OtherVector(v, d))] :
         v \in VectorsOfDim(d), a \in {0, 1}}

\* a version-1 file with one record, followed by the first n bytes of another
PartialTailFiles(d) ==
  {[file |-> LegacyFile(d, <<<<FileHash, v>>>>)
               \o SubSeq(EncodeRecord(OtherHash, w), 1, n),
    stored |-> MapPut(EmptyMap, FileHash, v)] :
     v \in VectorsOfDim(d), w \in {Ones(d)},
     n \in {RecordMetaSize \div 2, RecordMetaSize, RecordMetaSize + 4 * d - 2}}

\* a file with the magic and a version that no writer of the format uses,
\* empty or with one record
OtherVersionFiles(d) ==
  {[file |-> Encode([NewHeader(d) EXCEPT !.Version = ver, !.RecordCount = Len(recs)])
               \o Records(recs, 1),
    stored |-> EmptyMap] :
     ver \in {0, 3}, recs \in {<<>>} \cup {<<<<FileHash, v>>>> : v \in VectorsOfDim(d)}}

\* a version-2 file with one record whose header gives an index_offset inside
\* the header or past the end of the file
BadOffsetFiles(d) ==
  LET size == HeaderSize + RecordMetaSize + 4 * d
  IN  {[file |-> Encode([NewHeader(d) EXCEPT !.RecordCount = 1, !.IndexOffset = off])
                   \o Records(<<<<FileHash, v>>>>, 1),
        stored |-> MapPut(EmptyMap, FileHash, v)] :
         v \in VectorsOfDim(d), off \in {HeaderSize \div 2, size + IndexEntrySize}}

\* for comparison, the same record in the file a clean close leaves: the
\* index section right behind the record
GoodOffsetFiles(d) ==
  LET size == HeaderSize + RecordMetaSize + 4 * d
  IN  {[file |-> Encode([NewHeader(d) EXCEPT !.RecordCount = 1, !.IndexOffset = size])
                   \o Records(<<<<FileHash, v>>>>, 1)
                   \o Entries(<<<<FileHash, HeaderSize>>>>, 1),
        stored |-> MapPut(EmptyMap, FileHash, v)] :
         v \in VectorsOfDim(d)}

ExternalFiles(d) ==
  DupLegacyFiles(d) \cup DupSectionFiles(d) \cup PartialTailFiles(d)
    \cup OtherVersionFiles(d)

InitExternal ==
  /\ exists = TRUE
  /\ \E d \in Dims : \E x \in ExternalFiles(d) :
       file = x.file /\ stored = x.stored
  /\ fds = 0
  /\ phase = "None"
  /\ openErr = "none"
  /\ dimension = 0
  /\ header = NewHeader(0)
  /\ index = EmptyMap
  /\ dataEndOffset = 0
  /\ mmap = NilMmap
  /\ capacity = 0
  /\ lru = <<>>
  /\ pc = [t \in Threads |-> "idle"]
  /\ call = [t \in Threads |-> NoCall]
  /\ loc = [t \in Threads |-> NoLoc]
  /\ ret = NoRet
  /\ closedCalls = 0
  /\ recency = <<>>

\* one thread on such a file, with a one-entry cache: open, read, insert,
\* close, open again
OpenExternal == \E d \in Dims : OpenWithOptions(d, 1)
NextExternal == OpenExternal \/ Reader(1) \/ Writer(1)
SpecExternal == InitExternal /\ [][NextExternal]_vars

\* one reading thread on a file whose index_offset is impossible, or right
InitBadOffset ==
  /\ exists = TRUE
  /\ \E d \in Dims : \E x \in BadOffsetFiles(d) \cup GoodOffsetFiles(d) :
       file = x.file /\ stored = x.stored
  /\ fds = 0
  /\ phase = "None"
  /\ openErr = "none"
  /\ dimension = 0
  /\ header = NewHeader(0)
  /\ index = EmptyMap
  /\ dataEndOffset = 0
  /\ mmap = NilMmap
  /\ capacity = 0
  /\ lru = <<>>
  /\ pc = [t \in Threads |-> "idle"]
  /\ call = [t \in Threads |-> NoCall]
  /\ loc = [t \in Threads |-> NoLoc]
  /\ ret = NoRet
  /\ closedCalls = 0
  /\ recency = <<>>

NextBadOffset == OpenExternal \/ Reader(1)
SpecBadOffset == InitBadOffset /\ [][NextBadOffset]_vars

\* ------------------------------------------------- the locks
\* The sections of the calls with db.mu and the cache's mu made explicit.  A
\* thread at the label of a section first takes the section's lock (held) and
\* then runs the section and unlocks in one step; a lock taken inside a section
\* is waited for with the outer lock held.  cache.Get is the first thing Get
\* does, under the cache lock alone.
\* the lock a section runs under: db.mu exclusively (W), db.mu shared (R), the
\* cache's mu (C)
SectionLock(label) ==
  CASE label \in {"insert", "close"} -> "W"
    [] label \in {"get_lookup", "get_read", "find_snap", "find_read", "stats"} -> "R"
    [] label = "get_put" -> "C"
    [] OTHER -> "none"

\* a cache Put that takes db.mu exclusively while it holds the cache lock
InnerLockInverted(label) ==
  CASE label = "stats" -> "C"
    [] label = "get_put" -> "W"
    [] OTHER -> "none"

\* the lock a section takes while it holds its own: Stats calls db.cache.Len()
InnerLock(label) == IF label = "stats" THEN "C" ELSE "none"

Holds(u, lock) == loc[u].held /\ SectionLock(pc[u]) = lock

\* sync.RWMutex and sync.Mutex: a writer waits for all holders; a reader waits
\* for the writer that holds the lock and for writers that wait for it
CanLock(t, lock) ==
  CASE lock = "W" -> \A u \in Threads \ {t} : ~Holds(u, "W") /\ ~Holds(u, "R")
    [] lock = "R" -> \A u \in Threads \ {t} :
                       ~Holds(u, "W") /\ ~(SectionLock(pc[u]) = "W" /\ ~loc[u].held)
    [] lock = "C" -> \A u \in Threads \ {t} : ~Holds(u, "C")
    [] OTHER -> TRUE

\* Lock() or RLock() at the head of a section returns
Acquire(t) ==
  /\ SectionLock(pc[t]) # "none" /\ ~loc[t].held
  /\ CanLock(t, SectionLock(pc[t]))
  /\ loc' = [loc EXCEPT ![t].held = TRUE]
  /\ ret' = NoRet
  /\ UNCHANGED <<fsVars, phase, openErr, dbVars, cacheVars, pc, call,
                 closedCalls, stored>>

\* the section of thread t runs and unlocks
Section(t) ==
  /\ loc[t].held /\ CanLock(t, InnerLock(pc[t]))
  /\ \/ InsertBody(t)
     \/ GetLookup(t)
     \/ GetRead(t)
     \/ GetPut(t)
     \/ FindSnap(t)
     \/ FindRead(t)
     \/ StatsBody(t)
     \/ CloseBody(t)

\* two keys with different hashes, one vector
LockKeys == {1, MaxKey}
LockVector == <<F1>>

\* a call begins: thread 1 inserts and closes, thread 2 searches, both read
\* and ask for the statistics
Begin(t) ==
  \/ t = 1 /\ \E k \in LockKeys : CallInsert(t, k, LockVector)
  \/ CanLock(t, "C") /\ \E k \in LockKeys : CallGet(t, k)
  \/ t = 2 /\ CallFind(t, LockVector, One)
  \/ CallStats(t)
  \/ t = 1 /\ CallClose(t)

LockStep(t) == Acquire(t) \/ Section(t)

\* two threads on one engine
NextLocks == OpenConc \/ \E t \in Threads : Begin(t) \/ LockStep(t)
SpecLocks == Init /\ [][NextLocks]_vars

\* a thread that waits for a lock gets it when it is free often enough, and a
\* thread that holds one goes on
SpecLocksFair == SpecLocks /\ \A t \in Threads : SF_vars(LockStep(t))

\* ------------------------------------------------- Insert with I/O errors
\* The paths of Insert on which a system call fails, for a hash that is not in
\* the index: db.file.WriteAt (nothing or only the metadata bytes written), or
\* in remap syscall.Munmap, db.file.Stat or syscall.Mmap.  WriteAt fails before
\* the index is touched; remap runs after index, record count and data end are
\* updated.  A failed Munmap leaves the old mapping, a failed Stat the unmapped
\* slice, a failed Mmap assigns nil.
IOFailures == {"WriteAt", "Munmap", "Stat", "Mmap"}

\* whether the failing call comes before the update of index, count, data end
InsertFailureKeepsState(failure) == failure = "WriteAt"

InsertFails(t, failure, n) ==
  /\ pc[t] = "insert" /\ phase = "Open"
  /\ ~InsertExists(index, HashText(call[t].key))
  /\ failure = "Munmap" => ~mmap.isNil
  /\ n > 0 => failure = "WriteAt"
  /\ LET hash == HashText(call[t].key)
         vector == call[t].vec
         offset == InsertOffset(dataEndOffset, Len(file))
         buf == EncodeRecord(hash, vector)
     IN  /\ file' = IF failure = "WriteAt"
                      THEN IF n = 0 THEN file ELSE WriteAt(file, SubSeq(buf, 1, n), offset)
                      ELSE WriteAt(file, buf, offset)
         /\ IF InsertFailureKeepsState(failure)
              THEN UNCHANGED <<index, header, dataEndOffset>>
              ELSE /\ index' = MapPut(index, hash, offset)
                   /\ header' = [header EXCEPT !.RecordCount = RecordCountAfterInsert(@)]
                   /\ dataEndOffset' = offset + RecordMetaSize + Len(vector) * 4
         /\ mmap' = CASE failure = "Stat" -> CloseMmap(mmap)
                      [] failure = "Mmap" -> NilMmap
                      [] OTHER -> mmap
         /\ stored' = IF failure # "WriteAt" /\ hash \notin DOMAIN stored
                        THEN MapPut(stored, hash, vector) ELSE stored
         /\ Return(t, [Event(t, call[t], loc[t], "IOError") EXCEPT !.failure = failure])
  /\ UNCHANGED <<exists, fds, phase, openErr, dimension, cacheVars, closedCalls>>

\* the first open of a store, which creates it
OpenFresh == ~exists /\ \E d \in Dims, cs \in CacheSizes : OpenWithOptions(d, cs)

\* one thread on a store it creates and does not reopen, whose inserts may fail
NextIO ==
  \/ OpenFresh
  \/ Reader(1)
  \/ Writer(1)
  \/ \E failure \in IOFailures, n \in {0, RecordMetaSize} : InsertFails(1, failure, n)
SpecIO == Init /\ [][NextIO]_vars

\* ------------------------------------------------- stop without Close
\* The process ends while the engine is open, between two calls: no Close
\* runs, so neither index section nor header is written; what WriteAt has
\* written stays in the file.  The event tells whether records were inserted
\* since the open: Insert counts them in db.header, which only Close writes.
Stop ==
  /\ phase = "Open"
  /\ \A t \in Threads : pc[t] = "idle"
  /\ phase' = "Crashed"
  /\ ret' = [NoRet EXCEPT !.op = "stop",
                          !.kind = IF header.RecordCount # Uint64(file, 12)
                                     THEN "unsaved" ELSE "saved"]
  /\ fds' = 0
  /\ dimension' = 0
  /\ header' = NewHeader(0)
  /\ index' = EmptyMap
  /\ dataEndOffset' = 0
  /\ mmap' = NilMmap
  /\ capacity' = 0
  /\ lru' = <<>>
  /\ recency' = <<>>
  /\ UNCHANGED <<exists, file, openErr, pc, call, loc, closedCalls, stored>>

\* one thread on a store it creates; the process may stop at any time and a
\* new one opens the file it left
NextCrash == OpenExternal \/ Reader(1) \/ Writer(1) \/ Stop
SpecCrash == Init /\ [][NextCrash]_vars

\* -------------------------------------------- fresh and version-1 stores
\* one thread on a store that starts without a file, with a foreign file or
\* with a version-1 file
InitStore == Init \/ InitLegacy
SpecStore == InitStore /\ [][NextLegacy]_vars

\* ----------------------------------------------------- colliding keys
\* every key comes with its own vector: keys 1 and 2, which collide, with
\* different ones
KeyVector(k, d) == [i \in 1..d |-> IF (i = 1) = (k % 2 = 1) THEN F1 ELSE F0]

\* one thread that inserts each key with its vector, reads, closes and reopens
NextCollide ==
  \/ Open
  \/ \E k \in Keys : CallInsert(1, k, KeyVector(k, dimension))
  \/ InsertBody(1)
  \/ \E k \in Keys : CallGet(1, k)
  \/ GetLookup(1)
  \/ GetRead(1)
  \/ GetPut(1)
  \/ CallClose(1)
  \/ CloseBody(1)
SpecCollide == Init /\ [][NextCollide]_vars

\* ============================================================ properties
\* position of hash h in the touch history (1 = touched last)
RecPos(h) == CHOOSE i \in DOMAIN recency : recency[i] = h

\* C1: on an open engine a get of a key whose hash was inserted returns the
\* vector of the insert that stored that hash, bit for bit, whatever the cache
\* capacity and whatever the cache holds or has evicted.
C1_GetReturnsInserted ==
  ret.op = "get" /\ ret.open /\ ret.expect # <<>>
    => ret.kind = "ok" /\ ret.out = ret.expect /\ ~ret.stale

\* a get served from the file on a two-record engine of dimension 2 whose
\* one-entry cache evicted the other record to take this one
C1_Witness ==
  /\ ret.op = "get" /\ ret.open /\ ret.kind = "ok"
  /\ dimension = 2 /\ capacity = 1
  /\ Cardinality(DOMAIN stored) = 2
  /\ ret.evicted # 0
  /\ ret.out = ret.expect
  /\ ret.out # stored[ret.evicted]

\* C2: reopening a closed engine with the same dimension succeeds and rebuilds
\* the index with the hash->offset pairs held at close, record_count and the
\* file size stay as the close left them, a close with no insert since the open
\* keeps them too, and gets on the reopened engine return the inserted vectors.
NoInsertSinceOpen ==
  \/ index = EmptyMap
  \/ header.IndexOffset > 0 /\ dataEndOffset = header.IndexOffset

C2_RoundTrip ==
  [][ /\ phase = "Closed" /\ ret'.op = "open" /\ ret'.key = dimension
           => /\ ret'.kind = "ok" /\ phase' = "Open"
              /\ index' = index
              /\ DOMAIN index' = DOMAIN stored
              /\ header'.RecordCount = header.RecordCount
              /\ Uint64(file', 12) = header.RecordCount
              /\ Len(file') = Len(file)
      /\ phase = "Open" /\ ret'.op = "close" /\ NoInsertSinceOpen
           => /\ ret'.kind = "ok"
              /\ Len(file') = Len(file)
              /\ Uint64(file', 12) = Uint64(file, 12)
      /\ header.IndexOffset > 0 /\ ret'.op = "get" /\ ret'.open /\ ret'.expect # <<>>
           => ret'.kind = "ok" /\ ret'.out = ret'.expect
    ]_vars

\* a get answered from the file by an engine that was opened on a closed file
\* holding two records
C2_Witness ==
  /\ phase = "Open" /\ header.IndexOffset > 0
  /\ Cardinality(DOMAIN index) = 2 /\ header.RecordCount = 2
  /\ ret.op = "get" /\ ret.open /\ ret.kind = "ok" /\ ret.out = ret.expect
  /\ lru = <<[hash |-> HashText(ret.key), vector |-> ret.out]>>

\* C3: an insert whose hash is already in the index returns success and leaves
\* the index, the header, data_end_offset and the file as they were, for both
\* vectors of length D; a get right after it returns the vector stored first.
C3_InsertExistingNoEffect ==
  [][ /\ \A t \in MainThreads :
           pc[t] = "insert" /\ HashText(call[t].key) \in DOMAIN index
             => /\ ret'.op = "insert" /\ ret'.kind = "ok"
                /\ index' = index /\ header' = header
                /\ dataEndOffset' = dataEndOffset
                /\ file' = file
      /\ ret'.op = "get" /\ ret'.open /\ ret'.prev # <<>> /\ ret'.prev[1] = "ok"
           => ret'.kind = "ok" /\ ret'.out = ret'.expect
    ]_vars

\* an insert of a stored hash with another vector has returned success
C3_Witness ==
  /\ phase = "Open" /\ ret.op = "insert" /\ ret.kind = "ok"
  /\ HashText(ret.key) \in DOMAIN stored
  /\ ret.vec # stored[HashText(ret.key)]
  /\ Len(ret.vec) = dimension

\* C4: an insert of a vector whose length is not D returns DimensionMismatch and
\* leaves the file, the index, the header, data_end_offset and the cache as they
\* were; a get of that key right after returns NotFound when nothing was stored
\* under its hash.
C4_DimensionMismatchNoEffect ==
  [][ /\ ret'.op = "insert" /\ Len(ret'.vec) # dimension
           => /\ ret'.kind = "DimensionMismatch"
              /\ UNCHANGED <<file, index, header, dataEndOffset, lru>>
      /\ ret'.op = "get" /\ ret'.expect = <<>>
           /\ ret'.prev # <<>> /\ ret'.prev[1] = "DimensionMismatch"
           => ret'.kind = "NotFound"
    ]_vars

\* NotFound from a get that followed a rejected insert of the same key
C4_Witness ==
  /\ phase = "Open" /\ ret.op = "get" /\ ret.kind = "NotFound"
  /\ ret.prev # <<>> /\ ret.prev[1] = "DimensionMismatch"
  /\ Cardinality(DOMAIN index) > 0

\* C5: a get whose hash is in neither the cache nor the index returns NotFound,
\* and neither of its two steps changes the index, the cache list or the file.
C5_GetAbsentNotFound ==
  [][ \A t \in MainThreads :
        /\ pc[t] = "idle" /\ call'[t].op = "get"
             /\ ~Present(lru, HashText(call'[t].key))
             => UNCHANGED <<index, lru, recency, file>>
        /\ pc[t] = "get_lookup" /\ loc[t].hash \notin DOMAIN index
             => /\ ret'.op = "get" /\ ret'.kind = "NotFound"
                /\ UNCHANGED <<index, lru, recency, file>>
    ]_vars

\* NotFound on an engine that holds a record and has one cached
C5_Witness ==
  /\ phase = "Open" /\ ret.op = "get" /\ ret.kind = "NotFound"
  /\ Len(lru) > 0 /\ Cardinality(DOMAIN index) > 0
  /\ HashText(ret.key) \notin DOMAIN index

C7_ClosedFails ==
  /\ ret.op \in {"insert", "get", "find", "stats", "close"}
  /\ ret.op \in {"insert", "find"} => Len(ret.vec) = dimension
  /\ ~ret.began
  => ret.kind = "ErrClosed" /\ ~ret.stale

\* C8: on an engine that stays open, once the insert that stored hash(k) has
\* returned, every get(k) that starts afterwards, on either thread and in every
\* interleaving with inserts, gets and find_similar, returns the stored vector;
\* so does every such get that has read its record and not yet returned.
C8_StoredInsertVisible ==
  /\ \A t \in Threads :
       ret.t = t /\ ret.op = "get" /\ ret.open /\ ret.expect # <<>>
         => ret.kind = "ok" /\ ret.out = ret.expect
  /\ \A t \in Threads :
       pc[t] = "get_put" /\ loc[t].open /\ loc[t].expect # <<>>
         => loc[t].vector = loc[t].expect

\* thread 2 started a get right after thread 1's insert of the key returned,
\* read the record from the file while thread 1 was inside another call, and
\* returned the inserted vector
C8_Witness ==
  /\ ret.op = "get" /\ ret.t = 2 /\ ret.open /\ ret.kind = "ok"
  /\ ret.prev # <<>> /\ ret.prev[1] = "ok" /\ ret.out = ret.prev[2]
  /\ ret.evicted # 0
  /\ pc[1] # "idle"

\* C8 as stated: after any successful insert(k, v) a get(k) returns v
C8_AnyInsertVisible ==
  ret.op = "get" /\ ret.open /\ ret.prev # <<>> /\ ret.prev[1] = "ok"
    => ret.kind = "ok" /\ ret.out = ret.prev[2]

\* C9: a get or find_similar that started on the open engine never reads a
\* record through a mapping that has been unmapped, whatever insert and close
\* do meanwhile.
C9_ReadsThroughLiveMapping ==
  /\ ret.op \in {"get", "find"} /\ ret.began => ~ret.stale /\ ret.kind # "panic"
  /\ \A t \in Threads :
       pc[t] \in {"get_read", "find_read"} /\ loc[t].began
         => mmap.isNil \/ mmap.live

\* C10: when a put of a new hash overflows the cache, exactly the entry touched
\* longest ago goes, and a get hit leaves the entry at the front.
C10_EvictsLeastRecent ==
  /\ Len(lru) <= capacity
  /\ ret.op = "cache_put"
       => /\ lru[1].hash = ret.key /\ lru[1].vector = ret.vec
          /\ ret.evicted # 0
               => /\ Len(lru) = capacity
                  /\ ~Present(lru, ret.evicted)
                  /\ \A i \in DOMAIN lru : RecPos(lru[i].hash) < RecPos(ret.evicted)
  /\ ret.op = "cache_get" /\ ret.kind = "ok"
       => lru[1].hash = ret.key /\ lru[1].vector = ret.out
  /\ [i \in DOMAIN lru |-> lru[i].hash]
       = SelectSeq(recency, LAMBDA h : Present(lru, h))

\* a put into a full two-entry cache evicted an entry that was put after the
\* entry that stays: the one that stays was promoted by a get hit
C10_Witness ==
  /\ ret.op = "cache_put" /\ ret.evicted # 0
  /\ capacity = 2 /\ Len(lru) = 2
  /\ ret.evicted > lru[2].hash
  /\ Len(recency) = 3

\* the smaller of two numbers
Min(a, b) == IF a < b THEN a ELSE b

\* C11: the hashes in the cache are exactly the min(capacity, touched) hashes
\* touched last by a put or a get hit; a get miss touches nothing.
C11_PresentAreMostRecent ==
  /\ {lru[i].hash : i \in DOMAIN lru}
       = {recency[i] : i \in 1..Min(capacity, Len(recency))}
  /\ Len(lru) = Min(capacity, Len(recency))

\* a full two-entry cache after three hashes were put and a get of the evicted
\* one missed
C11_Witness ==
  /\ capacity = 2 /\ Len(lru) = 2 /\ Len(recency) = 3
  /\ ret.op = "cache_get" /\ ret.kind = "miss"
  /\ ret.key = recency[3]

\* C12: the cache never holds more entries than its capacity, and Stats
\* reports the cache length, which is at most the reported capacity.
C12_CacheWithinCapacity ==
  /\ Len(lru) <= capacity
  /\ ret.op = "stats" /\ ret.kind = "ok"
       => /\ ret.stats.cache_size = Len(lru)
          /\ ret.stats.cache_size <= ret.stats.cache_capacity

\* Stats on a two-record engine whose one-entry cache is full
C12_Witness ==
  /\ ret.op = "stats" /\ ret.kind = "ok"
  /\ ret.stats.cache_capacity = 1 /\ ret.stats.cache_size = 1
  /\ ret.stats.records = 2

\* C13: a vector returned by get is the caller's own copy: after the caller
\* writes into it, the cache still holds the stored vector under that hash and
\* every later get of the key returns the stored vector.
C13_ReturnedVectorOwned ==
  /\ phase = "Open"
       => \A i \in DOMAIN lru : lru[i].vector = stored[lru[i].hash]
  /\ ret.op = "get" /\ ret.open /\ ret.kind = "ok" /\ ret.expect # <<>>
       => ret.out = ret.expect

\* the stored vectors whose cosine with q is at least th
Meeting(q, th) == {h \in DOMAIN stored : Ge(cosineSimilarity(q, stored[h]), th)}

\* C14: a find_similar that succeeds returns a score that is at least the
\* threshold and at least the cosine of the query with every stored vector,
\* together with a stored vector whose cosine with the query is that score.
C14_FindReturnsBest ==
  ret.op = "find" /\ ret.open /\ ret.kind = "ok"
    => /\ Ge(ret.score, ret.threshold)
       /\ \A h \in DOMAIN stored : Ge(ret.score, cosineSimilarity(ret.vec, stored[h]))
       /\ \E h \in DOMAIN stored :
            /\ stored[h] = ret.out
            /\ Ge(cosineSimilarity(ret.vec, ret.out), ret.score)

\* C15: find_similar returns NotFound whenever no stored vector reaches the
\* threshold, on an empty store for every threshold; a success carries a vector
\* of length D.
C15_FindNotFoundWhenNoneMeets ==
  /\ ret.op = "find" /\ ret.open /\ Len(ret.vec) = dimension
       /\ Meeting(ret.vec, ret.threshold) = {}
       => ret.kind = "NotFound"
  /\ ret.op = "find" /\ ret.open /\ ret.kind = "ok"
       => Len(ret.out) = dimension

\* the (hash, offset) pairs in the n 16-byte slots of f from offset off
TailEntries(f, off, n) ==
  {<<Uint64(f, off + i * 16), Uint64(f, off + i * 16 + 8)>> : i \in 0..(n - 1)}

C18_CollidingKeysShareRecord ==
  [][ /\ pc[1] = "insert" /\ HashText(call[1].key) \in DOMAIN stored
           /\ call[1].vec # stored[HashText(call[1].key)]
           => /\ ret'.op = "insert" /\ ret'.kind = "ok"
              /\ UNCHANGED <<file, index, header, dataEndOffset>>
      /\ phase' = "Open"
           => /\ header'.RecordCount = Cardinality(DOMAIN index')
              /\ dataEndOffset' = HeaderSize
                   + Cardinality(DOMAIN index') * (RecordMetaSize + 4 * dimension')
      /\ ret'.op = "get" /\ ret'.open /\ ret'.key \in {1, 2}
           => IF HashText(1) \in DOMAIN stored
                THEN ret'.kind = "ok" /\ ret'.out = stored[HashText(1)]
                ELSE ret'.kind = "NotFound"
    ]_vars

\* get of key 2 right after its insert returned success gives the vector that
\* key 1 inserted, and the engine holds one record
C18_Witness ==
  /\ phase = "Open" /\ dimension = 2
  /\ ret.op = "get" /\ ret.key = 2 /\ ret.kind = "ok"
  /\ ret.prev = <<"ok", KeyVector(2, dimension)>>
  /\ ret.out = KeyVector(1, dimension)
  /\ ret.out # KeyVector(2, dimension)
  /\ Cardinality(DOMAIN index) = 1 /\ header.RecordCount = 1
  /\ dataEndOffset = HeaderSize + RecordMetaSize + 4 * dimension

\* C19: the records and index_size that Stats reports are the number of hashes
\* in the index, which is the number of hashes whose insert stored a record,
\* before and after close and reopen; an open with cache size cs gives the
\* cache the capacity cs, or 100 when cs is 0, the capacity stays for the
\* lifetime of the engine, and Stats reports it as cache_capacity.
C19_StatsCounts ==
  [][ /\ ret'.op = "stats" /\ ret'.kind = "ok"
           => /\ ret'.stats.records = Cardinality(DOMAIN index)
              /\ ret'.stats.index_size = Cardinality(DOMAIN index)
              /\ ret'.stats.records = Cardinality(DOMAIN stored)
              /\ ret'.stats.cache_capacity = capacity
      /\ ret'.op = "open" /\ ret'.kind = "ok"
           => capacity' = IF ret'.cacheSize = 0 THEN 100 ELSE ret'.cacheSize
      /\ phase = "Open" /\ phase' = "Open" => capacity' = capacity
    ]_vars

\* Stats on a reopened engine, opened with cache size 0, reports the two
\* records of the earlier lifetime and a capacity of 100
C19_Witness ==
  /\ ret.op = "stats" /\ ret.kind = "ok"
  /\ NoInsertSinceOpen
  /\ ret.stats.records = 2 /\ ret.stats.index_size = 2
  /\ Cardinality(DOMAIN stored) = 2
  /\ ret.stats.cache_capacity = DefaultCacheSize
  /\ ret.stats.cache_size = 0

\* C20: an open of a path that does not exist, for any dimension d and cache
\* size, succeeds and leaves a file of 256 bytes: the magic, version 2,
\* dimension d, record_count 0, index_offset 0, data_offset 256 and zeros up
\* to byte 256; the engine it returns has the same header, an empty index, an
\* empty LRU, data_end_offset 256, no mapping and one open descriptor.
C20_CreateFreshFile ==
  [][ ~exists /\ ret'.op = "open"
        => /\ ret'.kind = "ok" /\ phase' = "Open" /\ exists'
           /\ Len(file') = 256
           /\ SubSeq(file', 1, 4) = MagicBytes
           /\ Uint32(file', 4) = 2
           /\ Uint32(file', 8) = ret'.key
           /\ Uint64(file', 12) = 0
           /\ Uint64(file', 20) = 0
           /\ Uint64(file', 28) = 256
           /\ \A i \in 37..256 : file'[i] = 0
           /\ header' = DecodeHeader(file')
           /\ dimension' = ret'.key
           /\ index' = EmptyMap
           /\ lru' = <<>>
           /\ dataEndOffset' = 256
           /\ mmap'.isNil
           /\ fds' = fds + 1
    ]_vars

\* the engine right after creating a file of dimension 2
C20_Witness ==
  /\ ret.op = "open" /\ ret.kind = "ok" /\ ret.key = 2
  /\ phase = "Open" /\ exists
  /\ stored = EmptyMap
  /\ Len(file) = HeaderSize /\ Uint32(file, 8) = 2 /\ Uint64(file, 28) = HeaderSize
  /\ index = EmptyMap /\ dataEndOffset = HeaderSize /\ mmap.isNil

\* C21: between the index lookup of a get and its record decode no other
\* thread runs the exclusive section of an insert or of a close.
C21_LookupAndDecodeOneHold ==
  [][ \A t \in Threads : pc[t] = "get_read"
        => \A u \in Threads \ {t} :
             ~ (/\ pc[u] \in {"insert", "close"}
                /\ pc'[u] = "idle"
                /\ ret'.t = u /\ ret'.op = call[u].op) ]_vars

\* C22: while the engine is open and after its close, the data end lies
\* between the end of the header and the end of the file.
C22_DataEndWithinFile ==
  phase \in {"Open", "Closed"}
    => HeaderSize <= dataEndOffset /\ dataEndOffset <= Len(file)

\* an engine reopened on a file that ends in an index section: the data end is
\* the start of that section, past the header and before the end of the file
C22_Witness ==
  /\ phase = "Open" /\ ret.op = "open" /\ ret.kind = "ok"
  /\ header.IndexOffset > 0 /\ dataEndOffset = header.IndexOffset
  /\ HeaderSize < dataEndOffset /\ dataEndOffset < Len(file)

C24_MappingCoversFile ==
  /\ phase = "Open" => mmap.isNil \/ (mmap.live /\ mmap.len = Len(file))
  /\ phase = "Open" /\ mmap.isNil => Len(file) <= HeaderSize
  /\ mmap.live => mmap.len = Len(file)
  /\ \A t \in Threads :
       ret.t = t /\ ret.op = "insert" /\ ret.kind = "ok" /\ ret.open
         => ~mmap.isNil /\ mmap.live /\ mmap.len = Len(file)

\* thread 1's insert on a store with a record returned while thread 2 stands
\* between the lookup and the read of a get: the mapping is the new one, as
\* long as the grown file
C24_Witness ==
  /\ phase = "Open" /\ ret.t = 1 /\ ret.op = "insert" /\ ret.kind = "ok"
  /\ pc[2] = "get_read"
  /\ Cardinality(DOMAIN index) = 2
  /\ ~mmap.isNil /\ mmap.live /\ mmap.len = Len(file)
  /\ Len(file) = dataEndOffset

\* the bytes of the record of dimension d at offset off of f
RecordAt(f, off, d) == SubSeq(f, off + 1, off + RecordMetaSize + 4 * d)

\* C25: a record that is in the index stays where it is and as it is: every
\* step that leaves the engine open or closed (inserts, the index write and
\* truncate of close, reopen) keeps its index entry and its 16 + 4*D bytes in
\* the file, which are the record that the insert wrote; and nothing but
\* calls on an open engine changes a file.
C25_RecordsNeverMove ==
  [][ /\ phase \in {"Open", "Closed"}
           => \A h \in DOMAIN index :
                /\ RecordAt(file, index[h], dimension) = EncodeRecord(h, stored[h])
                /\ RecordAt(file', index[h], dimension) = RecordAt(file, index[h], dimension)
                /\ phase' \in {"Open", "Closed"}
                     => h \in DOMAIN index' /\ index'[h] = index[h]
      /\ phase # "Open" /\ exists => file' = file
    ]_vars

\* an engine of dimension 2 reopened on a store with one record has just
\* written a second one where the index section was: both records are in the
\* index at their offsets and in the file as they were inserted
C25_Witness ==
  /\ phase = "Open" /\ ret.op = "insert" /\ ret.kind = "ok" /\ dimension = 2
  /\ header.Version = 2 /\ header.IndexOffset > HeaderSize
  /\ dataEndOffset > header.IndexOffset
  /\ Cardinality(DOMAIN index) = 2
  /\ \A h \in DOMAIN index :
       RecordAt(file, index[h], dimension) = EncodeRecord(h, stored[h])

\* C26: a successful open of a version-2 file with an index section sets the
\* data end to the header's index_offset, an open of any other file to the
\* length of the file; an insert that stores a record writes it at the data
\* end, which is where the last record ends, enters that offset in the index
\* and advances the data end by the record, and the file grows only as far as
\* the record reaches past its old end.
C26_InsertAtDataEnd ==
  [][ /\ exists /\ ret'.op = "open" /\ ret'.kind = "ok"
           => dataEndOffset' =
                IF Uint32(file, 4) >= 2 /\ Uint64(file, 20) > 0
                  THEN Uint64(file, 20) ELSE Len(file)
      /\ \A t \in Threads :
           /\ pc[t] = "insert" /\ phase = "Open"
           /\ HashText(call[t].key) \notin DOMAIN index
           /\ pc'[t] = "idle"
           => LET hash == HashText(call[t].key)
                  size == RecordMetaSize + 4 * dimension
              IN  /\ ret'.kind = "ok"
                  /\ \A h \in DOMAIN index : index[h] + size <= dataEndOffset
                  /\ \/ dataEndOffset = HeaderSize
                     \/ \E h \in DOMAIN index : index[h] + size = dataEndOffset
                  /\ index' = MapPut(index, hash, dataEndOffset)
                  /\ RecordAt(file', dataEndOffset, dimension)
                       = EncodeRecord(hash, call[t].vec)
                  /\ SubSeq(file', 1, dataEndOffset) = SubSeq(file, 1, dataEndOffset)
                  /\ dataEndOffset' = dataEndOffset + size
                  /\ Len(file') = IF dataEndOffset' > Len(file)
                                    THEN dataEndOffset' ELSE Len(file)
    ]_vars

\* the first insert on an engine of dimension 1 reopened on a store with one
\* record: the new record starts at the old index_offset, right behind the
\* first record
C26_Witness ==
  /\ phase = "Open" /\ ret.op = "insert" /\ ret.kind = "ok" /\ dimension = 1
  /\ header.Version = 2
  /\ header.IndexOffset = HeaderSize + RecordMetaSize + 4 * dimension
  /\ \E h \in DOMAIN index :
       /\ index[h] = header.IndexOffset
       /\ RecordAt(file, index[h], dimension) = EncodeRecord(h, stored[h])
  /\ dataEndOffset = header.IndexOffset + RecordMetaSize + 4 * dimension

\* where hash first occurs in the input of the index build of the file f with
\* header h: the offset in the first index entry that names it, or the offset
\* of the first record that carries it
RECURSIVE FirstRecord(_, _, _)
FirstRecord(f, hash, offset) ==
  IF Uint64(f, offset) = hash THEN offset
  ELSE FirstRecord(f, hash, offset + RecordMetaSize + 4 * Uint32(f, offset + 8))

FirstOccurrence(f, h, hash) ==
  IF h.Version >= 2 /\ h.IndexOffset > 0
    THEN LET n == (Len(f) - h.IndexOffset) \div IndexEntrySize
             named == {j \in 0..(n - 1) :
                         DecodeIndexEntry(f, h.IndexOffset + j * IndexEntrySize).Hash = hash}
             i == CHOOSE j \in named : \A k \in named : j <= k
         IN  DecodeIndexEntry(f, h.IndexOffset + i * IndexEntrySize).Offset
    ELSE FirstRecord(f, hash, HeaderSize)

\* C27: the index that a successful open has built holds, for every hash, the
\* offset of the first occurrence of that hash in the index section or in the
\* scanned records.
C27_FirstOccurrenceKept ==
  phase = "Open" /\ ret.op = "open" /\ ret.kind = "ok"
    => \A hash \in DOMAIN index : index[hash] = FirstOccurrence(file, header, hash)

\* C28: when the process stopped without Close after it had inserted records,
\* the next open with the file's dimension succeeds, its index is the one the scan of the records gives, and
\* every record inserted before the stop is in it and decodes to its vector.
C28_RecoversAfterStop ==
  [][ /\ phase = "Crashed" /\ ret.op = "stop" /\ ret.kind = "unsaved"
      /\ ret'.op = "open" /\ ret'.key = Uint32(file, 8)
      => /\ ret'.kind = "ok"
         /\ index' = buildIndexLegacy(file)
         /\ \A h \in DOMAIN stored :
              /\ h \in DOMAIN index'
              /\ readVector(file', mmap', index'[h]) = Result("ok", stored[h])
    ]_vars

\* C29: every record in the index of an open engine lies entirely inside the
\* file, also when the file that was scanned ends in a part of a record, and
\* no get or find_similar on the open engine ends in a run-time failure.
C29_ScanStopsAtPartialRecord ==
  /\ phase = "Open"
       => \A h \in DOMAIN index :
            index[h] + RecordMetaSize + 4 * Uint32(file, index[h] + 8) <= Len(file)
  /\ ret.op \in {"get", "find"} /\ ret.began => ret.kind # "panic"

\* C30: an open of a file whose header has the magic, the requested dimension
\* and a version other than 1 and 2 returns InvalidFormat and no engine, and
\* leaves no descriptor open.
C30_OtherVersionRejected ==
  [][ /\ exists /\ Len(file) >= HeaderSize
      /\ SubSeq(file, 1, 4) = MagicBytes
      /\ Uint32(file, 4) \notin {1, 2}
      /\ ret'.op = "open" /\ ret'.key = Uint32(file, 8)
      => ret'.kind = "InvalidFormat" /\ phase' = "None" /\ fds' = fds
    ]_vars

\* C31: an open of a version-2 file with the magic and the requested
\* dimension whose index_offset is not zero and lies inside the header or
\* past the end of the file returns InvalidFormat and no engine.
C31_ImpossibleOffsetRejected ==
  [][ /\ exists /\ Len(file) >= HeaderSize
      /\ SubSeq(file, 1, 4) = MagicBytes
      /\ Uint32(file, 4) = 2
      /\ Uint64(file, 20) # 0
      /\ Uint64(file, 20) < HeaderSize \/ Uint64(file, 20) > Len(file)
      /\ ret'.op = "open" /\ ret'.key = Uint32(file, 8)
      => ret'.kind = "InvalidFormat" /\ phase' = "None"
    ]_vars

\* C32: when an insert returns an error because WriteAt or a call of remap
\* failed, index, record count and data end are as before the call, and the
\* key's hash is not in the index.
C32_FailedInsertKeepsState ==
  [][ \A t \in Threads :
        pc[t] = "insert" /\ ret'.t = t /\ ret'.op = "insert" /\ ret'.kind = "IOError"
          => /\ UNCHANGED <<index, dataEndOffset>>
             /\ header'.RecordCount = header.RecordCount
             /\ HashText(ret'.key) \notin DOMAIN index'
    ]_vars


\* the entries of the list l without the one for hash h, in their order
Others(l, h) == SelectSeq(l, LAMBDA e : e.hash # h)

\* C33: a put of a hash that is in the cache stores the new vector for it, moves
\* it to the front, keeps the size and drops nothing: the other entries stay,
\* in their order.
C33_PutReplacesPresent ==
  [][ ret'.op = "cache_put" /\ Present(lru, ret'.key)
        => /\ lru'[1] = [hash |-> ret'.key, vector |-> ret'.vec]
           /\ Len(lru') = Len(lru)
           /\ ret'.evicted = 0
           /\ Others(lru', ret'.key) = Others(lru, ret'.key)
    ]_vars

\* a put into a full two-entry cache found its hash there with another vector
\* and evicted nothing
C33_Witness ==
  /\ ret.op = "cache_put" /\ ret.prev # <<>> /\ ret.prev # ret.vec
  /\ capacity = 2 /\ Len(lru) = 2 /\ ret.evicted = 0
  /\ lru[1] = [hash |-> ret.key, vector |-> ret.vec]


\* C34: a get that missed the cache and read its vector puts (hash, vector) at
\* the front of the cache, which grows by one entry when it was not full; a get
\* of the same key called right after it returns at once with the same vector.
C34_MissFillsCache ==
  [][ \A t \in Threads :
        /\ pc[t] = "get_put" /\ ret'.t = t /\ ret'.op = "get" /\ ret'.kind = "ok"
             => /\ lru'[1] = [hash |-> HashText(ret'.key), vector |-> ret'.out]
                /\ Len(lru) < capacity => Len(lru') = Len(lru) + 1
                /\ Len(lru) >= capacity => Len(lru') = Len(lru)
        /\ ( /\ pc[t] = "idle" /\ ret.t = t /\ ret.op = "get" /\ ret.kind = "ok"
             /\ \/ call'[t].op = "get" /\ call'[t].key = ret.key
                \/ ret'.t = t /\ ret'.op = "get" /\ ret'.key = ret.key )
             => /\ pc'[t] = "idle" /\ ret'.op = "get" /\ ret'.kind = "ok"
                /\ ret'.out = ret.out
    ]_vars

\* a cache with room left holds both hashes, each put there by a get that had
\* missed, and the last get returned the stored vector of the hash at the front
C34_Witness ==
  /\ ret.op = "get" /\ ret.kind = "ok" /\ ~ret.stale /\ phase = "Open"
  /\ capacity > 1 /\ Len(lru) = 2 /\ Len(recency) = 2
  /\ recency[1] = HashText(ret.key)
  /\ lru[1] = [hash |-> HashText(ret.key), vector |-> ret.out]
  /\ ret.out = ret.expect


\* C35: while the engine stays open, every turn of the loop of find_similar
\* decodes at its snapshot offset the vector stored there when the snapshot was
\* taken, whatever was inserted since, and the call returns the best record of
\* the snapshot (NotFound when none of them reaches the threshold).
C35_FindUsesSnapshot ==
  [][ \A t \in Threads :
        pc[t] = "find_read" /\ phase = "Open"
          => /\ \E h \in loc[t].snapshot :
                  /\ h \in DOMAIN index /\ index[h] = Head(loc[t].offsets)
                  /\ ReadOutcomes(file, mmap, Head(loc[t].offsets))
                       = {Result("ok", stored[h])}
             /\ ret'.t = t /\ ret'.op = "find" /\ ret'.kind = "ok"
                  => \E h \in loc[t].snapshot :
                       /\ ret'.out = stored[h]
                       /\ ret'.score = cosineSimilarity(ret'.vec, stored[h])
                       /\ \A g \in loc[t].snapshot :
                            Ge(ret'.score, cosineSimilarity(ret'.vec, stored[g]))
             /\ ret'.t = t /\ ret'.op = "find" /\ ret'.kind = "NotFound"
                  => \A g \in loc[t].snapshot :
                       ~Ge(cosineSimilarity(ret'.vec, stored[g]), ret'.threshold)
    ]_vars

\* find_similar returned a record while the index holds a record that scores
\* higher: that one was inserted after the snapshot
C35_Witness ==
  /\ ret.op = "find" /\ ret.kind = "ok" /\ phase = "Open" /\ ret.out # <<>>
  /\ \E h \in DOMAIN index :
       Gt(cosineSimilarity(ret.vec, stored[h]), ret.score)


\* C36: a close of an open engine whose index is empty or whose header version
\* is below 2 changes only the header bytes and leaves file length, version and
\* index_offset as they were: 0 and no index section for a version-1 file, 256
\* bytes and index_offset 0 for an empty version-2 store.  Any other close puts
\* the index section at the data end.
C36_IndexSectionOnlyWhenNeeded ==
  [][ \A t \in Threads :
        pc[t] = "close" /\ phase = "Open" /\ ret'.op = "close"
          => /\ index = EmptyMap \/ header.Version < 2
                  => /\ Len(file') = Len(file)
                     /\ SubSeq(file', HeaderSize + 1, Len(file'))
                          = SubSeq(file, HeaderSize + 1, Len(file))
                     /\ Uint64(file', 20) = Uint64(file, 20)
                     /\ Uint32(file', 4) = Uint32(file, 4)
             /\ header.Version = 1
                  => /\ Uint32(file', 4) = 1 /\ Uint64(file', 20) = 0
                     /\ Len(file') = dataEndOffset
             /\ index = EmptyMap /\ header.Version = 2 /\ Len(file) = HeaderSize
                  => Len(file') = HeaderSize /\ Uint64(file', 20) = 0
             /\ index # EmptyMap /\ header.Version >= 2
                  => /\ Uint64(file', 20) = dataEndOffset
                     /\ Len(file') = dataEndOffset
                                       + IndexEntrySize * Cardinality(DOMAIN index)
    ]_vars

\* a version-1 file with two records has been closed: no index section, the
\* version still 1
C36_Witness ==
  /\ phase = "Closed" /\ ret.op = "close" /\ ret.kind = "ok"
  /\ Uint32(file, 4) = 1 /\ Uint64(file, 20) = 0 /\ Uint64(file, 12) = 2
  /\ Cardinality(DOMAIN index) = 2
  /\ Len(file) = HeaderSize + 2 * (RecordMetaSize + 4 * dimension)


\* C37: in an engine that was created fresh and used through insert, get,
\* find_similar, stats, close and reopen, the record count of the header is the
\* number of index entries, and a close writes that count to the file.
C37_RecordCountIsIndexSize ==
  /\ phase \in {"Open", "Closed"} => header.RecordCount = Cardinality(DOMAIN index)
  /\ phase = "Closed" => Uint64(file, 12) = Cardinality(DOMAIN index)

\* a store with one record was closed and reopened, and a second record was
\* inserted: count and index both say two
C37_Witness ==
  /\ phase = "Open" /\ ret.op = "insert" /\ ret.kind = "ok"
  /\ header.IndexOffset > HeaderSize /\ dataEndOffset > header.IndexOffset
  /\ header.RecordCount = 2 /\ Cardinality(DOMAIN index) = 2
  /\ Uint64(file, 12) = 1


\* the length of a record of dimension d
RecordSize(d) == RecordMetaSize + 4 * d

\* C38: in an engine created fresh with dimension D, with n records in the
\* index, the index offsets are 256 + i*(16 + 4*D) for i < n, the data end is
\* 256 + n*(16 + 4*D), and each of these places holds the record of the hash
\* indexed there, also after a close and a reopen.
C38_RecordsContiguous ==
  phase \in {"Open", "Closed"}
    => LET n == Cardinality(DOMAIN index)
       IN  /\ {index[h] : h \in DOMAIN index}
                = {HeaderSize + i * RecordSize(dimension) : i \in 0..(n - 1)}
           /\ dataEndOffset = HeaderSize + n * RecordSize(dimension)
           /\ \A h \in DOMAIN index :
                RecordAt(file, index[h], dimension) = EncodeRecord(h, stored[h])

\* the second record of a store of dimension 1 was inserted after a close and a
\* reopen: it lies where the index section was and the file ends with it
C38_Witness ==
  /\ phase = "Open" /\ ret.op = "insert" /\ ret.kind = "ok" /\ dimension = 1
  /\ header.IndexOffset = HeaderSize + RecordSize(1)
  /\ index[HashText(ret.key)] = header.IndexOffset
  /\ dataEndOffset = HeaderSize + 2 * RecordSize(1)
  /\ Len(file) = dataEndOffset


\* C39: while the engine is open, every hash in the cache is in the index and
\* the vector cached for it is the payload of the record at its index offset,
\* whatever the interleaving of gets and inserts.
C39_CacheCoherent ==
  phase = "Open"
    => \A i \in DOMAIN lru :
         /\ lru[i].hash \in DOMAIN index
         /\ RecordAt(file, index[lru[i].hash], dimension)
              = EncodeRecord(lru[i].hash, lru[i].vector)

\* the cache holds the first record while the second is in the index and a get
\* of the other thread is between its read and its put
C39_Witness ==
  /\ phase = "Open" /\ Len(lru) = 1 /\ Cardinality(DOMAIN index) = 2
  /\ index[lru[1].hash] = HeaderSize
  /\ \E t \in Threads : pc[t] = "get_put" /\ loc[t].hash # lru[1].hash
  /\ ret.op = "get" /\ ret.kind = "ok"


\* C40: with the locks explicit and the threads scheduled fairly, a thread that
\* is inside a call of get, insert, find_similar, stats or close gets out of
\* it, whatever the other thread calls meanwhile.
C40_EveryCallReturns ==
  \A t \in Threads : (pc[t] # "idle") ~> (pc[t] = "idle")

\* Stats holds db.mu shared and waits for the cache lock, which the Put of a
\* get of the other thread holds
C40_Witness ==
  \E t \in Threads, u \in Threads :
    /\ pc[t] = "stats" /\ loc[t].held
    /\ pc[u] = "get_put" /\ loc[u].held
    /\ phase = "Open"

====
